---------------------------- MODULE Spec2Model ----------------------------
(***************************************************************************)
(* The capacity-forecast tool of mcp-server.js: the pure forecast          *)
(* computation (generateCapacityForecast and its helpers) and the tool     *)
(* handler that validates the arguments, generates the forecast and        *)
(* appends a record to capacity_forecasts.json.                            *)
(*                                                                         *)
(* Numbers.  A JavaScript number is a record [k, n, d]: k = "fin" is the   *)
(* rational n/d (d > 0), the other kinds are NaN, +Infinity, -Infinity,    *)
(* null and undefined.  Arithmetic on finite numbers is exact (real)       *)
(* arithmetic; products beyond 32-bit integers are carried as              *)
(* base-16 digit sequences.  Fractional parameters are carried as integers  *)
(* in a fixed unit: growth_rate in hundredths, confidence_interval in      *)
(* thousandths, thresholds in hundredths.                                  *)
(*                                                                         *)
(* Dates.  A Date is its day number since 1970-01-01; the time of day is   *)
(* not modelled.                                                           *)
(***************************************************************************)
EXTENDS Integers, Sequences, FiniteSets, TLC

\* ------------------------------------------------------------------ bounds

\* Largest historical_days / forecast_days drawn by the forecast specification.
MaxHistDays == 3
MaxFcDays == 6
\* Number of tool calls that may be in flight in the handler specification.
NumCalls == 2
\* Largest number of records in the store file at start.
MaxInitRecords == 1
\* Largest number of failing file operations in one run.
MaxFaults == 1

\* ------------------------------------------------------------- JS numbers

Fin(n, d) == [k |-> "fin", n |-> n, d |-> d]
Num(n) == Fin(n, 1)
NaN == [k |-> "nan", n |-> 0, d |-> 1]
PosInf == [k |-> "inf", n |-> 0, d |-> 1]
NegInf == [k |-> "ninf", n |-> 0, d |-> 1]
Null == [k |-> "null", n |-> 0, d |-> 1]
Undefined == [k |-> "undef", n |-> 0, d |-> 1]

IsFin(x) == x.k = "fin"
Abs(n) == IF n < 0 THEN -n ELSE n
Sign(n) == IF n < 0 THEN -1 ELSE IF n > 0 THEN 1 ELSE 0
Max2(a, b) == IF a >= b THEN a ELSE b
Min2(a, b) == IF a <= b THEN a ELSE b

\* Digits in base 16 (least significant first) of a natural number.
RECURSIVE ToBits(_)
ToBits(n) == IF n = 0 THEN << >> ELSE <<n % 16>> \o ToBits(n \div 16)

RECURSIVE FromBits(_)
FromBits(b) == IF b = << >> THEN 0 ELSE Head(b) + 16 * FromBits(Tail(b))

\* b * m + carry, for a natural m below 2^27.
RECURSIVE MulBits(_, _, _)
MulBits(b, m, carry) ==
    IF b = << >> THEN ToBits(carry)
    ELSE LET t == Head(b) * m + carry
         IN  <<t % 16>> \o MulBits(Tail(b), m, t \div 16)

\* Quotient (digits, leading zeros kept) and remainder of b by a natural d,
\* 0 < d < 2^27.
RECURSIVE DivBits(_, _)
DivBits(b, d) ==
    IF b = << >> THEN [q |-> << >>, r |-> 0]
    ELSE LET hi == DivBits(Tail(b), d)
             r2 == 16 * hi.r + Head(b)
         IN  [q |-> <<r2 \div d>> \o hi.q, r |-> r2 % d]

RECURSIVE MulAll(_, _)
MulAll(b, fs) == IF fs = << >> THEN b ELSE MulAll(MulBits(b, Abs(Head(fs)), 0), Tail(fs))

\* Divides by every divisor in turn; exact is FALSE once a remainder was dropped.
RECURSIVE DivAll(_, _, _)
DivAll(b, ds, exact) ==
    IF ds = << >> THEN [q |-> b, exact |-> exact]
    ELSE LET s == DivBits(b, Abs(Head(ds)))
         IN  DivAll(s.q, Tail(ds), exact /\ s.r = 0)

RECURSIVE SignAll(_)
SignAll(fs) == IF fs = << >> THEN 1 ELSE Sign(Head(fs)) * SignAll(Tail(fs))

\* Math.floor of the product of the integers fs divided by the product of
\* the non-zero integers ds.
FloorProd(fs, ds) ==
    LET s == SignAll(fs) * SignAll(ds)
        m == DivAll(MulAll(<<1>>, fs), ds, TRUE)
        q == FromBits(m.q)
    IN  IF s = 0 THEN 0
        ELSE IF s > 0 THEN q
        ELSE IF m.exact THEN -q ELSE -q - 1

\* Math.ceil of the same quotient.
CeilProd(fs, ds) == -FloorProd(<<-1>> \o fs, ds)

\* an / ad >= bn / bd for positive denominators: by the integer parts, then
\* by the fractional parts.
GeqFraction(an, ad, bn, bd) ==
    IF an \div ad # bn \div bd THEN an \div ad > bn \div bd
    ELSE (an % ad) * bd >= (bn % bd) * ad

\* x >= y as JavaScript evaluates it: false when either side is NaN or undefined.
Geq(x, y) ==
    IF x.k \in {"nan", "undef"} \/ y.k \in {"nan", "undef"} THEN FALSE
    ELSE IF y.k = "ninf" \/ x.k = "inf" THEN TRUE
    ELSE IF y.k = "inf" \/ x.k = "ninf" THEN FALSE
    ELSE GeqFraction(IF x.k = "null" THEN 0 ELSE x.n, x.d,
                     IF y.k = "null" THEN 0 ELSE y.n, y.d)

\* JSON.stringify of a number: NaN and the infinities are written as null.
Stringify(x) == IF x.k \in {"nan", "inf", "ninf", "undef"} THEN Null ELSE x

\* A slice that starts one element late.
SliceLate(s, start) == SubSeq(s, Min2(Max2(start, 0), Len(s)) + 2, Len(s))

\* Array.prototype.slice(start): a negative start counts from the end.
Slice(s, start) ==
    LET len == Len(s)
        from == IF start < 0 THEN Max2(len + start, 0) ELSE Min2(start, len)
    IN  SubSeq(s, from + 1, len)

\* array[i] with a 0-based index: undefined outside the array.
At(s, i) == IF i >= 0 /\ i < Len(s) THEN s[i + 1] ELSE Undefined

\* ------------------------------------------------------------------ dates

\* A Date holds at most 8.64e15 ms from the epoch, that is 100,000,000 days;
\* beyond it the Date is invalid and toISOString throws a RangeError.
MaxDateDays == 100000000
ValidDate(day) == -MaxDateDays <= day /\ day <= MaxDateDays

\* The ISO label of a date, as a value of the timeline's labels array.
DateV(day) == [k |-> "date", n |-> day, d |-> 1]

\* Date.getDay(): 0 = Sunday; 1970-01-01 was a Thursday.
GetDay(day) == (day + 4) % 7

\* Year, month (0 = January) and day of the month of a day number.
\* from the year of the era (counted from 1 March) and the day of that year
CivilOfYear(year, doy, mp) ==
    [year |-> year + (IF mp < 10 THEN 0 ELSE 1),
     month |-> IF mp < 10 THEN mp + 2 ELSE mp - 10,
     date |-> doy - (153 * mp + 2) \div 5 + 1]

CivilOfDay(era, yoe, doe) ==
    CivilOfYear(yoe + era * 400,
                doe - (365 * yoe + yoe \div 4 - yoe \div 100),
                (5 * (doe - (365 * yoe + yoe \div 4 - yoe \div 100)) + 2) \div 153)

CivilOfEra(era, doe) ==
    CivilOfDay(era, (doe - doe \div 1460 + doe \div 36524 - doe \div 146096) \div 365, doe)

Civil(day) == CivilOfEra((day + 719468) \div 146097, (day + 719468) % 146097)

GetMonth(day) == Civil(day).month
GetDate(day) == Civil(day).date

\* new Date(year, month + 1, 0).getDate(): the number of days of the month.
DaysInMonth(year, month) ==
    IF month = 1
    THEN (IF (year % 4 = 0 /\ year % 100 # 0) \/ year % 400 = 0 THEN 29 ELSE 28)
    ELSE IF month \in {3, 5, 8, 10} THEN 30 ELSE 31

MonthLengthOf(c) == DaysInMonth(c.year, c.month)
MonthLength(day) == MonthLengthOf(Civil(day))

\* ------------------------------------------------------- capacity and base

UsageTypes == {"dns_query_usage_sum", "cdn_request_sum", "cdn_traffic_sum"}

\* The capacity of the default branch for every usage type.
getCapacityDefault(usageType) == 1000000

getCapacityForUsageType(usageType) ==
    CASE usageType = "dns_query_usage_sum" -> 500000
      [] usageType = "cdn_request_sum" -> 2000000
      [] usageType = "cdn_traffic_sum" -> 50000
      [] OTHER -> 1000000

baseValue(usageType) ==
    CASE usageType = "dns_query_usage_sum" -> 100000
      [] usageType = "cdn_request_sum" -> 500000
      [] usageType = "cdn_traffic_sum" -> 10000
      [] OTHER -> 100000

\* ------------------------------------------------------ series synthesis

\* 1 + (growthRate / 30) * i as a fraction over 3000 (growthRate in hundredths).
trendNum(growthRate, i) == 3000 + growthRate * i

\* dayFactor in tenths: 0.6 on Saturday and Sunday, 1.1 otherwise.
dayFactor(day) == IF GetDay(day) = 0 \/ GetDay(day) = 6 THEN 6 ELSE 11

\* Math.sin(monthProgress * 2 * Math.PI) as a fraction [n, d], by Bhaskara's
\* rational approximation of the sine (error below 0.002); a is twice the
\* day of the month, so that the angle is 180 * a / monthLength degrees.
sinHalfTurn(len, h, s) ==
    [n |-> s * 16 * h * (len - h), d |-> 5 * len * len - 4 * h * (len - h)]

sinOfMonth(len, a) ==
    IF a <= len THEN sinHalfTurn(len, a, 1) ELSE sinHalfTurn(len, a - len, -1)

sinMonthProgress(day) == sinOfMonth(MonthLength(day), 2 * GetDate(day))

\* 1000 * Math.sin((month / 12) * 2 * Math.PI + Math.PI / 2), rounded.
sinYear(month) ==
    <<1000, 866, 500, 0, -500, -866, -1000, -866, -500, 0, 500, 866>>[month + 1]

\* Math.random() stands behind noiseFactor = 0.9 + Math.random() * 0.2, a
\* number in [0.9, 1.1).  The seed's i-th base-3 digit picks the draw of day
\* i, in thousandths.
noiseFactor(seed, i) ==
    LET digit == IF i < 9 THEN (seed \div (3 ^ i)) % 3 ELSE 0
    IN  <<1000, 905, 1095>>[digit + 1]

\* The value of historical day i (0-based) on date day.
\* seasonalFactor = (1 - 0.1 * sin(monthProgress)) * (1 + 0.2 * sin(year)),
\* as the factors of its numerator and of its denominator.
seasonalFactor(sm, month) ==
    [num |-> <<10 * sm.d - sm.n, 5000 + sinYear(month)>>, den |-> <<10 * sm.d, 5000>>]

historicalValueOf(args, seed, i, day, season) ==
    FloorProd(<<baseValue(args.usage_type), trendNum(args.growth_rate, i),
                dayFactor(day), noiseFactor(seed, i)>> \o season.num,
              <<3000, 10, 1000>> \o season.den)

historicalValue(args, seed, i, day) ==
    historicalValueOf(args, seed, i, day,
                      IF args.include_seasonality
                      THEN seasonalFactor(sinMonthProgress(day), GetMonth(day))
                      ELSE [num |-> <<1, 1>>, den |-> <<1, 1>>])

\* ------------------------------------------------------ pattern analysis

RECURSIVE GCD(_, _)
GCD(a, b) == IF b = 0 THEN a ELSE GCD(b, a % b)
LCM(a, b) == (a \div GCD(a, b)) * b

\* The 0-based indices i < historicalDays that analyzeHistoricalPatterns puts
\* into weekday bucket dow; clockDay is the day new Date() returns there.
bucketIndices(historicalDays, clockDay, dow) ==
    {i \in 0..(historicalDays - 1) : GetDay(clockDay - (historicalDays - i)) = dow}

RECURSIVE sumAt(_, _)
sumAt(values, idx) ==
    IF idx = {} THEN 0
    ELSE LET i == CHOOSE x \in idx : TRUE
         IN  values[i + 1].n + sumAt(values, idx \ {i})

RECURSIVE lcmOf(_)
lcmOf(ns) ==
    IF ns = {} THEN 1
    ELSE LET n == CHOOSE x \in ns : TRUE IN LCM(n, lcmOf(ns \ {n}))

\* 1.2 + (i - 9) * 0.1 from October, 0.9 from June to August, 1.0 otherwise,
\* in tenths.
monthlyPatterns == <<10, 10, 10, 10, 10, 9, 9, 9, 10, 12, 13, 14>>

\* weekdayPatterns[dow + 1] is the normalized weekday factor as a JS number:
\* (sum / count, or 1 for an empty bucket) divided by the mean of the seven.
reduced(n, d, g) == Fin(n \div g, d \div g)

\* A weekday factor normalized by the sum of the averages over 6.
normalizedBySix(avg, total) ==
    IF total # 0
    THEN reduced(6 * avg, total, GCD(Abs(6 * avg), Abs(total)) * Sign(total))
    ELSE IF avg > 0 THEN PosInf
    ELSE IF avg < 0 THEN NegInf
    ELSE NaN

\* avg / (total / 7) as a JS number
normalizedPattern(avg, total) ==
    IF total # 0
    THEN reduced(7 * avg, total, GCD(Abs(7 * avg), Abs(total)) * Sign(total))
    ELSE IF avg > 0 THEN PosInf
    ELSE IF avg < 0 THEN NegInf
    ELSE NaN

sum7(a) == a[1] + a[2] + a[3] + a[4] + a[5] + a[6] + a[7]

normalizedPatterns(avgL) == [w \in 1..7 |-> normalizedPattern(avgL[w], sum7(avgL))]

\* the bucket averages times L, the least common multiple of the bucket sizes;
\* the average of an empty bucket is 1
weekdayAverages(historicalValues, idx, L) ==
    [w \in 1..7 |->
        IF idx[w] # {}
        THEN sumAt(historicalValues, idx[w]) * (L \div Cardinality(idx[w]))
        ELSE L]

weekdayPatternsOf(historicalValues, idx) ==
    normalizedPatterns(
        weekdayAverages(historicalValues, idx,
                        lcmOf({Cardinality(idx[w]) : w \in 1..7} \ {0})))

analyzeHistoricalPatterns(historicalValues, historicalDays, clockDay) ==
    [weekdayPatterns |->
        weekdayPatternsOf(historicalValues,
                          [w \in 1..7 |-> bucketIndices(historicalDays, clockDay, w - 1)]),
     monthlyPatterns |-> monthlyPatterns]

\* ------------------------------------------------------------- forecast

\* Math.floor(x * num / den) for a JS number x and integers num, den > 0.
scaleFloor(x, num, den) ==
    IF x.k = "fin" THEN Num(FloorProd(<<x.n, num>>, <<x.d, den>>))
    ELSE IF x.k \in {"inf", "ninf"} /\ num # 0
    THEN (IF (x.k = "inf") = (num > 0) THEN PosInf ELSE NegInf)
    ELSE NaN

\* A forecast value that takes the monthly pattern whether or not
\* include_seasonality is set.
forecastedValueSeasonal(last, args, pats, i, day) ==
    LET week == pats.weekdayPatterns[GetDay(day) + 1]
        season == pats.monthlyPatterns[GetMonth(day) + 1]
        trend == trendNum(args.growth_rate, i)
    IN  IF last.k # "fin" \/ week.k # "fin" THEN NaN
        ELSE Num(FloorProd(<<last.n, trend, week.n, season>>, <<3000, week.d, 10>>))

\* Math.floor(lastHistoricalValue * trendFactor * weekPattern * seasonalFactor)
\* for forecast offset i on date day.
forecastedValue(last, args, pats, i, day) ==
    LET week == pats.weekdayPatterns[GetDay(day) + 1]
        season == IF args.include_seasonality
                  THEN pats.monthlyPatterns[GetMonth(day) + 1] ELSE 10
        trend == trendNum(args.growth_rate, i)
    IN  IF last.k # "fin" \/ week.k = "nan" THEN NaN
        ELSE IF week.k = "fin"
        THEN Num(FloorProd(<<last.n, trend, week.n, season>>, <<3000, week.d, 10>>))
        ELSE LET s == Sign(last.n) * Sign(trend) * (IF week.k = "inf" THEN 1 ELSE -1)
             IN  IF s > 0 THEN PosInf ELSE IF s < 0 THEN NegInf ELSE NaN

\* varianceFactor = (1 - confidenceInterval) * (dayFromNow / forecastDays) * 0.5
\* as a fraction over 2000 * forecastDays (confidenceInterval in thousandths).
varianceNum(args, i) == (1000 - args.confidence_interval) * (i + 1)

confidenceLowerAt(value, args, i) ==
    scaleFloor(value, 2000 * args.forecast_days - varianceNum(args, i),
               2000 * args.forecast_days)

confidenceUpperAt(value, args, i) ==
    scaleFloor(value, 2000 * args.forecast_days + varianceNum(args, i),
               2000 * args.forecast_days)

\* capacity * (1 - threshold): the share of the capacity left above the
\* threshold.
thresholdValueAbove(usageType, threshold) ==
    Fin(getCapacityForUsageType(usageType) * (100 - threshold), 100)

\* capacity * threshold, the threshold in hundredths.
thresholdValue(usageType, threshold) ==
    Fin(getCapacityForUsageType(usageType) * threshold, 100)

RECURSIVE breachFrom(_, _, _, _)
breachFrom(forecastDates, forecastValues, thresholdVal, i) ==
    IF i > Len(forecastDates) THEN Null
    ELSE IF Geq(forecastValues[i], thresholdVal) THEN forecastDates[i]
    ELSE breachFrom(forecastDates, forecastValues, thresholdVal, i + 1)

\* A search that takes the first value at or below the threshold instead.
RECURSIVE belowFrom(_, _, _, _)
belowFrom(forecastDates, forecastValues, thresholdVal, i) ==
    IF i > Len(forecastDates) THEN Null
    ELSE IF Geq(thresholdVal, forecastValues[i]) THEN forecastDates[i]
    ELSE belowFrom(forecastDates, forecastValues, thresholdVal, i + 1)

findFirstBelow(forecastDates, forecastValues, thresholdVal) ==
    belowFrom(forecastDates, forecastValues, thresholdVal, 1)

findCapacityBreachDate(forecastDates, forecastValues, thresholdVal) ==
    breachFrom(forecastDates, forecastValues, thresholdVal, 1)

\* ----------------------------------------------------- growth and advice

\* Array.prototype.slice(start, end): a negative index counts from the end.
SliceTo(s, start, end) ==
    LET len == Len(s)
        from == IF start < 0 THEN Max2(len + start, 0) ELSE Min2(start, len)
        to == IF end < 0 THEN Max2(len + end, 0) ELSE Min2(end, len)
    IN  SubSeq(s, from + 1, to)

\* x + y for two timeline values (integers, NaN or an infinity).
Plus(x, y) ==
    IF x.k = "nan" \/ y.k = "nan" THEN NaN
    ELSE IF x.k \in {"inf", "ninf"}
    THEN (IF y.k \in {"inf", "ninf"} /\ y.k # x.k THEN NaN ELSE x)
    ELSE IF y.k \in {"inf", "ninf"} THEN y
    ELSE Num(x.n + y.n)

\* reduce((sum, val) => sum + val, 0); once the sum is NaN it stays NaN.
RECURSIVE sumFrom(_, _, _)
sumFrom(s, i, sum) ==
    IF i > Len(s) \/ sum.k = "nan" THEN sum ELSE sumFrom(s, i + 1, Plus(sum, s[i]))

sumOf(s) == sumFrom(s, 1, Num(0))

\* Math.max(...s): -Infinity for no argument, NaN when an argument is NaN.
RECURSIVE maxFrom(_, _, _)
maxFrom(s, i, best) ==
    IF i > Len(s) THEN best
    ELSE IF s[i].k = "nan" \/ best.k = "nan" THEN maxFrom(s, i + 1, NaN)
    ELSE maxFrom(s, i + 1, IF Geq(s[i], best) THEN s[i] ELSE best)

maxOf(s) == maxFrom(s, 1, NegInf)

\* sum / count for an integer count.  A zero count divides by zero; the sign
\* of a zero is not carried (no quotient of the function depends on it).
average(sum, count) ==
    IF sum.k = "nan" THEN NaN
    ELSE IF sum.k \in {"inf", "ninf"}
    THEN (IF (sum.k = "inf") = (count >= 0) THEN PosInf ELSE NegInf)
    ELSE IF count = 0
    THEN (IF sum.n = 0 THEN NaN ELSE IF sum.n > 0 THEN PosInf ELSE NegInf)
    ELSE Fin(sum.n * Sign(count), Abs(count))

\* Math.floor of a number.
Floor(x) == IF x.k = "fin" THEN Num(FloorProd(<<x.n>>, <<x.d>>)) ELSE x

\* The integer nearest to the product of fs over the product of ds.
RoundProd(fs, ds) == (FloorProd(<<2>> \o fs, ds) + 1) \div 2

\* ((nextAvg / pastAvg - 1) * 100).toFixed(2), as the number the string
\* reads: hundredths, or NaN / Infinity / -Infinity for the strings "NaN",
\* "Infinity" and "-Infinity".
growthPct(nextAvg, pastAvg) ==
    IF nextAvg.k = "nan" \/ pastAvg.k = "nan" THEN NaN
    ELSE IF nextAvg.k \in {"inf", "ninf"}
    THEN (IF pastAvg.k \in {"inf", "ninf"} THEN NaN
          ELSE IF (nextAvg.k = "inf") = (pastAvg.n >= 0) THEN PosInf ELSE NegInf)
    ELSE IF pastAvg.k \in {"inf", "ninf"} THEN Fin(-10000, 100)
    ELSE IF pastAvg.n = 0
    THEN (IF nextAvg.n = 0 THEN NaN ELSE IF nextAvg.n > 0 THEN PosInf ELSE NegInf)
    ELSE Fin(RoundProd(<<nextAvg.n, pastAvg.d, 10000>>, <<nextAvg.d, pastAvg.n>>) - 10000,
             100)

\* The object calculateGrowthMetrics returns, from the three averages and
\* the two peaks.
growthMetricsOf(currentValue, past30DaysAvg, next30DaysAvg, next90DaysAvg, next30DaysPeak, next90DaysPeak) ==
    [current_value |-> currentValue,
     past_30_days_avg |-> Floor(past30DaysAvg),
     next_30_days_avg |-> Floor(next30DaysAvg),
     next_90_days_avg |-> Floor(next90DaysAvg),
     next_30_days_growth_pct |-> growthPct(next30DaysAvg, past30DaysAvg),
     next_90_days_growth_pct |-> growthPct(next90DaysAvg, past30DaysAvg),
     next_30_days_peak |-> next30DaysPeak,
     next_90_days_peak |-> next90DaysPeak]

\* The windows of calculateGrowthMetrics, from their end points.
growthMetricsIn(timelineValues, now, last30DaysStart, next30DaysEnd, next90DaysEnd) ==
    growthMetricsOf(
        At(timelineValues, now),
        average(sumOf(SliceTo(timelineValues, last30DaysStart, now + 1)),
                now - last30DaysStart + 1),
        average(sumOf(SliceTo(timelineValues, now + 1, next30DaysEnd + 1)),
                next30DaysEnd - now),
        average(sumOf(SliceTo(timelineValues, now + 1, next90DaysEnd + 1)),
                next90DaysEnd - now),
        maxOf(SliceTo(timelineValues, now + 1, next30DaysEnd + 1)),
        maxOf(SliceTo(timelineValues, now + 1, next90DaysEnd + 1)))

\* Growth metrics whose past window is the whole history.
calculateGrowthMetricsWholeHistory(timelineValues, historicalDays, forecastDays) ==
    growthMetricsIn(timelineValues, historicalDays - 1, 0,
                    Min2(Len(timelineValues) - 1, historicalDays - 1 + 30),
                    Min2(Len(timelineValues) - 1, historicalDays - 1 + 90))

calculateGrowthMetrics(timelineValues, historicalDays, forecastDays) ==
    growthMetricsIn(timelineValues, historicalDays - 1,
                    Max2(0, historicalDays - 1 - 30),
                    Min2(Len(timelineValues) - 1, historicalDays - 1 + 30),
                    Min2(Len(timelineValues) - 1, historicalDays - 1 + 90))

\* x > y as JavaScript evaluates it.
Gt(x, y) == Geq(x, y) /\ ~Geq(y, x)

\* Math.floor(Math.log10(n)) for a positive integer n.
RECURSIVE magnitude(_)
magnitude(n) == IF n < 10 THEN 0 ELSE 1 + magnitude(n \div 10)

\* Math.pow(10, e) for e >= 0.
RECURSIVE pow10(_)
pow10(e) == IF e <= 0 THEN 1 ELSE 10 * pow10(e - 1)

\* Which number forecastPeak / safetyThreshold is (the threshold in
\* hundredths): "fin" when it is the finite 100 * forecastPeak / safetyThreshold.
safeCapacityKind(forecastPeak, safetyThreshold) ==
    IF forecastPeak.k = "nan" THEN "nan"
    ELSE IF forecastPeak.k \in {"inf", "ninf"}
    THEN (IF (forecastPeak.k = "inf") = (safetyThreshold >= 0) THEN "inf" ELSE "ninf")
    ELSE IF safetyThreshold = 0
    THEN (IF forecastPeak.n = 0 THEN "nan" ELSE IF forecastPeak.n > 0 THEN "inf" ELSE "ninf")
    ELSE "fin"

\* The object calculateRecommendedIncrease returns.  steps is
\* Math.ceil((safeCapacity - currentCapacity) / roundingFactor) and percent
\* is (safeCapacity / currentCapacity - 1) * 100 in tenths, both for a finite
\* safeCapacity; Math.max(0, ...) takes 0 when they are not positive.
\* increase_percent is the number its toFixed(1) string reads.
recommendedIncrease(kind, steps, percent, currentCapacity, roundingFactor) ==
    IF kind = "nan"
    THEN [increase_amount |-> NaN, increase_percent |-> NaN, new_capacity |-> NaN]
    ELSE IF kind = "inf"
    THEN [increase_amount |-> PosInf, increase_percent |-> PosInf, new_capacity |-> PosInf]
    ELSE IF kind = "ninf" \/ steps <= 0
    THEN [increase_amount |-> Num(0), increase_percent |-> Fin(0, 10),
          new_capacity |-> Num(currentCapacity)]
    ELSE [increase_amount |-> Num(steps * roundingFactor),
          increase_percent |-> Fin(percent, 10),
          new_capacity |-> Num(currentCapacity + steps * roundingFactor)]

\* Every capacity of getCapacityForUsageType is a multiple of its
\* roundingFactor, so the ceiling of the difference is the difference of the
\* ceiling of safeCapacity / roundingFactor and currentCapacity / roundingFactor.
increaseForPeak(forecastPeak, currentCapacity, safetyThreshold, roundingFactor) ==
    recommendedIncrease(
        safeCapacityKind(forecastPeak, safetyThreshold),
        CeilProd(<<forecastPeak.n, 100>>, <<safetyThreshold, roundingFactor>>)
            - currentCapacity \div roundingFactor,
        RoundProd(<<forecastPeak.n, 100, 1000>>, <<safetyThreshold, currentCapacity>>) - 1000,
        currentCapacity, roundingFactor)

calculateRecommendedIncrease(timelineValues, historicalDays, forecastDays, currentCapacity, safetyThreshold) ==
    increaseForPeak(
        maxOf(SliceTo(timelineValues, historicalDays,
                      Min2(Len(timelineValues) - 1, historicalDays + forecastDays - 1) + 1)),
        currentCapacity, safetyThreshold,
        pow10(magnitude(currentCapacity) - 1))

\* A breach-priority entry that looks at the warning breach date first.
breachAdviceWarningFirst(warningBreachDate, criticalBreachDate) ==
    IF warningBreachDate.k # "null"
    THEN [type |-> "warning", title |-> "Capacity Warning Threshold Approaching"]
    ELSE IF criticalBreachDate.k # "null"
    THEN [type |-> "critical", title |-> "Critical Capacity Breach Imminent"]
    ELSE [type |-> "info", title |-> "Capacity Adequate"]

\* The breach-priority entry: a breach date is an ISO string or null.
breachAdvice(warningBreachDate, criticalBreachDate) ==
    IF criticalBreachDate.k # "null"
    THEN [type |-> "critical", title |-> "Critical Capacity Breach Imminent"]
    ELSE IF warningBreachDate.k # "null"
    THEN [type |-> "warning", title |-> "Capacity Warning Threshold Approaching"]
    ELSE [type |-> "info", title |-> "Capacity Adequate"]

\* Growth entries pushed in the other order.
growthAdviceSustainedFirst(next30Growth, next90Growth) ==
    (IF Gt(next90Growth, Num(50))
     THEN <<[type |-> "info", title |-> "Sustained Growth Trend"]>> ELSE << >>)
    \o (IF Gt(next30Growth, Num(20))
        THEN <<[type |-> "warning", title |-> "Rapid Growth Detected"]>> ELSE << >>)

\* The growth entries, from parseFloat of the two growth percentages.
growthAdvice(next30Growth, next90Growth) ==
    (IF Gt(next30Growth, Num(20))
     THEN <<[type |-> "warning", title |-> "Rapid Growth Detected"]>> ELSE << >>)
    \o (IF Gt(next90Growth, Num(50))
        THEN <<[type |-> "info", title |-> "Sustained Growth Trend"]>> ELSE << >>)

\* A switch without the case of cdn_traffic_sum.
optimizationAdviceWithoutTraffic(usageType) ==
    CASE usageType = "dns_query_usage_sum" ->
            <<[type |-> "optimization", title |-> "DNS Query Optimization"]>>
      [] usageType = "cdn_request_sum" ->
            <<[type |-> "optimization", title |-> "Request Optimization"]>>
      [] OTHER -> << >>

\* The switch on the usage type; it has no default case.
optimizationAdvice(usageType) ==
    CASE usageType = "dns_query_usage_sum" ->
            <<[type |-> "optimization", title |-> "DNS Query Optimization"]>>
      [] usageType = "cdn_request_sum" ->
            <<[type |-> "optimization", title |-> "Request Optimization"]>>
      [] usageType = "cdn_traffic_sum" ->
            <<[type |-> "optimization", title |-> "Traffic Optimization"]>>
      [] OTHER -> << >>

generateRecommendations(usageType, growthMetrics, warningBreachDate, criticalBreachDate) ==
    <<breachAdvice(warningBreachDate, criticalBreachDate)>>
    \o growthAdvice(growthMetrics.next_30_days_growth_pct,
                    growthMetrics.next_90_days_growth_pct)
    \o optimizationAdvice(usageType)

\* The dates of the timeline: historical_days dates before env.now, then
\* forecast_days dates from env.now on.
timelineLabels(args, env) ==
    [i \in 1..Max2(args.historical_days, 0) |-> DateV(env.now - args.historical_days + i - 1)]
    \o [i \in 1..Max2(args.forecast_days, 0) |-> DateV(env.now + i - 1)]

\* (value / capacity * 100).toFixed(2), as the number the string reads:
\* hundredths, the nearest to the quotient, or NaN for the string "NaN" (the
\* value is undefined when the timeline has no such index).
currentUsagePercent(value, capacity) ==
    IF value.k # "fin" THEN NaN
    ELSE Fin(Sign(value.n) * RoundProd(<<Abs(value.n), 10000>>, <<capacity>>), 100)

\* The returned object, from the timeline, the breach dates and the growth
\* metrics.
forecastResult(args, timeline, warningBreachDate, criticalBreachDate, growthMetrics) ==
    [threw |-> FALSE,
     timeline |-> timeline,
     capacity |->
        [current |-> getCapacityForUsageType(args.usage_type),
         current_usage_percent |->
            currentUsagePercent(At(timeline.values, args.historical_days - 1),
                                getCapacityForUsageType(args.usage_type)),
         warning_breach_date |-> warningBreachDate,
         critical_breach_date |-> criticalBreachDate,
         recommended_increase |->
            calculateRecommendedIncrease(timeline.values, args.historical_days,
                                         args.forecast_days,
                                         getCapacityForUsageType(args.usage_type),
                                         args.threshold_warning)],
     growth_metrics |-> growthMetrics,
     recommendations |->
        generateRecommendations(args.usage_type, growthMetrics,
                                warningBreachDate, criticalBreachDate)]

\* The arrays of the timeline from the values the two loops have pushed, the
\* breach dates over the forecast segment and the growth metrics.
forecastObject(args, labels, histValues, fcValues, thresholdWarningValue, thresholdCriticalValue) ==
    forecastResult(
        args,
        [labels |-> labels,
         values |-> histValues \o fcValues,
         confidence_lower |->
            [i \in 1..Len(histValues) |-> Null]
            \o [i \in 1..Len(fcValues) |-> confidenceLowerAt(fcValues[i], args, i - 1)],
         confidence_upper |->
            [i \in 1..Len(histValues) |-> Null]
            \o [i \in 1..Len(fcValues) |-> confidenceUpperAt(fcValues[i], args, i - 1)],
         threshold_warning |->
            [i \in 1..(Len(histValues) + Len(fcValues)) |-> thresholdWarningValue],
         threshold_critical |->
            [i \in 1..(Len(histValues) + Len(fcValues)) |-> thresholdCriticalValue],
         historical_end_index |-> args.historical_days - 1],
        findCapacityBreachDate(
            Slice(labels, args.historical_days),
            Slice(histValues \o fcValues, args.historical_days),
            IF Len(histValues) + Len(fcValues) > 0 THEN thresholdWarningValue ELSE Undefined),
        findCapacityBreachDate(
            Slice(labels, args.historical_days),
            Slice(histValues \o fcValues, args.historical_days),
            IF Len(histValues) + Len(fcValues) > 0 THEN thresholdCriticalValue ELSE Undefined),
        calculateGrowthMetrics(histValues \o fcValues, args.historical_days,
                               args.forecast_days))

\* The forecast loop: every value is the last historical value scaled by the
\* trend, the weekday pattern and the monthly pattern.
forecastValues(args, env, lastHistoricalValue, pats) ==
    [i \in 1..Max2(args.forecast_days, 0) |->
        forecastedValue(lastHistoricalValue, args, pats, i - 1, env.now + i - 1)]

forecastFromHistory(args, env, histValues) ==
    forecastObject(args, timelineLabels(args, env), histValues,
                   forecastValues(args, env, At(histValues, Len(histValues) - 1),
                                  analyzeHistoricalPatterns(histValues, args.historical_days,
                                                            env.now + env.skew)),
                   thresholdValue(args.usage_type, args.threshold_warning),
                   thresholdValue(args.usage_type, args.threshold_critical))

\* The historical loop.
historicalValues(args, env) ==
    [i \in 1..Max2(args.historical_days, 0) |->
        Num(historicalValue(args, env.seed, i - 1, env.now - args.historical_days + i - 1))]

\* What the function returns when toISOString throws a RangeError.
NoTimeline ==
    [labels |-> << >>, values |-> << >>, confidence_lower |-> << >>,
     confidence_upper |-> << >>, threshold_warning |-> << >>,
     threshold_critical |-> << >>, historical_end_index |-> -1]

NoIncrease ==
    [increase_amount |-> Num(0), increase_percent |-> Fin(0, 10), new_capacity |-> Num(0)]

NoGrowthMetrics ==
    [current_value |-> Undefined, past_30_days_avg |-> NaN, next_30_days_avg |-> NaN,
     next_90_days_avg |-> NaN, next_30_days_growth_pct |-> NaN,
     next_90_days_growth_pct |-> NaN, next_30_days_peak |-> NegInf,
     next_90_days_peak |-> NegInf]

NoResult ==
    [threw |-> TRUE, timeline |-> NoTimeline,
     capacity |-> [current |-> 0, current_usage_percent |-> NaN,
                   warning_breach_date |-> Null,
                   critical_breach_date |-> Null, recommended_increase |-> NoIncrease],
     growth_metrics |-> NoGrowthMetrics,
     recommendations |-> << >>]

\* The forecast of one call.  env.now is the day new Date() returns when the
\* function starts, env.skew the days the clock has advanced by the time
\* analyzeHistoricalPatterns reads it, env.seed the draws of Math.random().
\* threw: toISOString threw in the first iteration of the historical loop
\* (the Date is invalid), and the function returned nothing.
generateCapacityForecast(args, env) ==
    IF args.historical_days >= 1 /\ ~ValidDate(env.now - args.historical_days)
    THEN NoResult
    ELSE forecastFromHistory(args, env, historicalValues(args, env))

\* JSON.stringify of the data of a forecast, as the client parses it back.
\* The percentages are strings already (toFixed) and are written as they are.
stringifyForecast(f) ==
    [f EXCEPT !.timeline.values = [i \in DOMAIN @ |-> Stringify(@[i])],
              !.timeline.confidence_lower = [i \in DOMAIN @ |-> Stringify(@[i])],
              !.timeline.confidence_upper = [i \in DOMAIN @ |-> Stringify(@[i])],
              !.capacity.recommended_increase.increase_amount = Stringify(@),
              !.capacity.recommended_increase.new_capacity = Stringify(@),
              !.growth_metrics.past_30_days_avg = Stringify(@),
              !.growth_metrics.next_30_days_avg = Stringify(@),
              !.growth_metrics.next_90_days_avg = Stringify(@),
              !.growth_metrics.next_30_days_peak = Stringify(@),
              !.growth_metrics.next_90_days_peak = Stringify(@)]

\* ------------------------------------------------- argument validation

\* The defaults of CapacityForecastSchema: growth_rate 0.05, confidence_interval
\* 0.95, thresholds 0.7 and 0.9, in the units of this module.
DefaultHistoricalDays == 90
DefaultForecastDays == 90
DefaultGrowthRate == 5
DefaultConfidenceInterval == 950
DefaultThresholdWarning == 70
DefaultThresholdCritical == 90
\* z.number().min(0).max(0.99), in thousandths.
MinConfidenceInterval == 0
MaxConfidenceInterval == 990

Has(raw, field) == field \in DOMAIN raw
Field(raw, field, default) == IF Has(raw, field) THEN raw[field] ELSE default

\* Whether CapacityForecastSchema.parse(args) returns (TRUE) or throws a
\* ZodError (FALSE).  raw holds the fields the client sent; every number
\* field is a number (z.number() sets no range and does not ask for an integer).
\* A schema whose confidence_interval is z.number() without min and max.
schemaWithoutRange(raw) ==
    /\ Has(raw, "org_id")
    /\ Has(raw, "usage_type") /\ raw.usage_type \in UsageTypes

schemaAccepts(raw) ==
    /\ Has(raw, "org_id")
    /\ Has(raw, "usage_type") /\ raw.usage_type \in UsageTypes
    /\ Has(raw, "confidence_interval") =>
          /\ raw.confidence_interval >= MinConfidenceInterval
          /\ raw.confidence_interval <= MaxConfidenceInterval

\* The object CapacityForecastSchema.parse(args) returns: defaults filled in.
schemaParse(raw) ==
    [org_id |-> raw.org_id,
     usage_type |-> raw.usage_type,
     historical_days |-> Field(raw, "historical_days", DefaultHistoricalDays),
     forecast_days |-> Field(raw, "forecast_days", DefaultForecastDays),
     growth_rate |-> Field(raw, "growth_rate", DefaultGrowthRate),
     include_seasonality |-> Field(raw, "include_seasonality", TRUE),
     confidence_interval |-> Field(raw, "confidence_interval", DefaultConfidenceInterval),
     threshold_warning |-> Field(raw, "threshold_warning", DefaultThresholdWarning),
     threshold_critical |-> Field(raw, "threshold_critical", DefaultThresholdCritical)]

\* ------------------------------------------------------- the store file

\* capacity_forecasts.json: absent, a JSON array of records, or a text that
\* does not parse (the file after writeFile has opened and truncated it and
\* before it has written the whole text).
FileMissing == [kind |-> "missing", recs |-> << >>]
FileJson(recs) == [kind |-> "json", recs |-> recs]
FilePartial == [kind |-> "partial", recs |-> << >>]

\* The records the store holds.
StoreRecords(f) == IF f.kind = "json" THEN f.recs ELSE << >>

\* loadDataOrDefault(filePath, []): the parsed array, or the default when
\* readFile or JSON.parse throws (readError: readFile failed).
loadDataOrDefault(f, readError) ==
    IF readError \/ f.kind # "json" THEN << >> ELSE f.recs

\* crypto.randomUUID(): the UUID drawn by call c, different from every other.
randomUUID(c) == c

forecastRecord(c, args, forecastData) ==
    [id |-> randomUUID(c),
     org_id |-> args.org_id,
     usage_type |-> args.usage_type,
     parameters |-> [historical_days |-> args.historical_days,
                     forecast_days |-> args.forecast_days,
                     growth_rate |-> args.growth_rate,
                     include_seasonality |-> args.include_seasonality,
                     confidence_interval |-> args.confidence_interval,
                     threshold_warning |-> args.threshold_warning,
                     threshold_critical |-> args.threshold_critical],
     forecast |-> stringifyForecast(forecastData)]

\* ----------------------------------------------------------------- state

VARIABLES
    fcIn,     \* forecast specification: the arguments and the environment of the call
    fcOut,    \* the object generateCapacityForecast returned
    fcJson,   \* the data of the response text
    fcPc,     \* "called", "generated", "returned" or "failed"
    file,     \* handler specification: capacity_forecasts.json
    calls,    \* the state of every capacity-forecast call
    faults,   \* the number of file operations that have failed
    lastReturn \* history: the call that returned last, and the store around it

fcVars == <<fcIn, fcOut, fcJson, fcPc>>
hVars == <<file, calls, faults, lastReturn>>
vars == <<fcIn, fcOut, fcJson, fcPc, file, calls, faults, lastReturn>>

\* ------------------------------------------- the forecast specification

\* The inputs the forecast specification draws.
HistDaysSet == -1..MaxHistDays
FcDaysSet == -1..MaxFcDays
GrowthSet == {-3000, 0, 5}
ConfidenceSet == {0, 950}
WarningSet == {0, 20, 70}
CriticalSet == {90}
\* Monday 2026-11-02, and Wednesday 2026-09-30 (the forecast crosses into October).
NowSet == {20759, 20726}
MaxSeed == 1

ForecastArgs ==
    [org_id : {"org1"}, usage_type : UsageTypes,
     historical_days : HistDaysSet, forecast_days : FcDaysSet,
     growth_rate : GrowthSet, include_seasonality : BOOLEAN,
     confidence_interval : ConfidenceSet,
     threshold_warning : WarningSet, threshold_critical : CriticalSet]

\* Calls with the default forecast_days, long enough for the 30-day and the
\* 90-day window of calculateGrowthMetrics to differ.
LongForecastArgs ==
    {[org_id |-> "org1", usage_type |-> u, historical_days |-> 1,
      forecast_days |-> DefaultForecastDays, growth_rate |-> 50,
      include_seasonality |-> FALSE,
      confidence_interval |-> DefaultConfidenceInterval,
      threshold_warning |-> DefaultThresholdWarning,
      threshold_critical |-> DefaultThresholdCritical] : u \in UsageTypes}

\* Calls with every parameter but the usage type left to its default, for the
\* two usage types of the smaller base values: the history is longer than
\* the 30-day window of calculateGrowthMetrics.
DefaultArgs ==
    {[org_id |-> "org1", usage_type |-> u,
      historical_days |-> DefaultHistoricalDays,
      forecast_days |-> DefaultForecastDays, growth_rate |-> DefaultGrowthRate,
      include_seasonality |-> TRUE,
      confidence_interval |-> DefaultConfidenceInterval,
      threshold_warning |-> DefaultThresholdWarning,
      threshold_critical |-> DefaultThresholdCritical] :
        u \in {"dns_query_usage_sum", "cdn_traffic_sum"}}

\* Calls whose warning threshold is above the critical one: the schema does
\* not relate the two.
InvertedThresholdArgs ==
    {[org_id |-> "org1", usage_type |-> u, historical_days |-> MaxHistDays,
      forecast_days |-> MaxFcDays, growth_rate |-> 0,
      include_seasonality |-> FALSE,
      confidence_interval |-> DefaultConfidenceInterval,
      threshold_warning |-> DefaultThresholdCritical,
      threshold_critical |-> DefaultThresholdWarning] : u \in UsageTypes}

ForecastEnvs == [now : NowSet, skew : {0, 1}, seed : 0..MaxSeed]

NoForecast ==
    [NoResult EXCEPT !.threw = FALSE, !.timeline.historical_end_index = 0]

FcInit ==
    /\ fcIn \in [args : ForecastArgs \cup LongForecastArgs \cup DefaultArgs
                        \cup InvertedThresholdArgs,
               env : ForecastEnvs]
    /\ fcOut = NoForecast
    /\ fcJson = NoForecast
    /\ fcPc = "called"
    /\ file = FileMissing
    /\ calls = << >>
    /\ faults = 0
    /\ lastReturn = << >>

\* generateCapacityForecast(...) inside the handler's try block.
FcGenerate ==
    /\ fcPc = "called"
    /\ fcOut' = generateCapacityForecast(fcIn.args, fcIn.env)
    /\ fcPc' = IF fcOut'.threw THEN "failed" ELSE "generated"
    /\ UNCHANGED <<fcIn, fcJson>>
    /\ UNCHANGED hVars

\* createTextResponse(JSON.stringify({success: true, data: forecastData.data})).
FcRespond ==
    /\ fcPc = "generated"
    /\ fcJson' = stringifyForecast(fcOut)
    /\ fcPc' = "returned"
    /\ UNCHANGED <<fcIn, fcOut>>
    /\ UNCHANGED hVars

FcNext == FcGenerate \/ FcRespond

SpecForecast == FcInit /\ [][FcNext]_vars

\* -------------------------------------------- the handler specification

Calls == 1..NumCalls

\* The clock and the random draws of the calls of the handler specification.
HandlerEnv == [now |-> 20759, skew |-> 0, seed |-> 0]

\* A day count beyond the range of Date.
HugeDays == 2 * MaxDateDays

\* The arguments the clients send.
BaseArgs ==
    [org_id |-> "org1", usage_type |-> "cdn_traffic_sum",
     historical_days |-> 1, forecast_days |-> 1, confidence_interval |-> 990]

HandlerArgs ==
    {[BaseArgs EXCEPT !.confidence_interval = ci] : ci \in {-1, 0, 990, 991}}
    \cup {[BaseArgs EXCEPT !.historical_days = hd] : hd \in {0, HugeDays}}

\* A record an earlier run of the server has stored.
OldRecord(i) ==
    [id |-> -i, org_id |-> "org0", usage_type |-> "dns_query_usage_sum",
     parameters |-> [historical_days |-> 0, forecast_days |-> 0, growth_rate |-> 0,
                     include_seasonality |-> FALSE, confidence_interval |-> 0,
                     threshold_warning |-> 0, threshold_critical |-> 0],
     forecast |-> NoForecast]

NoArgs == [usage_type |-> "none"]

\* pc: "idle", "entered" (awaiting ensureDataDirExists), "reading" (awaiting
\* loadDataOrDefault), "saving" (awaiting saveData, writeFile not yet opened),
\* "writing" (writeFile has opened and truncated the file), "saved" (writeFile
\* done, the handler not yet resumed), "done" (response returned).
\* response: "none", "success", "invalid" (Invalid arguments: ...) or "error"
\* (Error generating capacity forecast: ...).
\* generated, before and solo record the history of the call: whether
\* generateCapacityForecast returned, and, as long as no other call has been
\* in flight since the call arrived (solo), the records of the store when it
\* arrived.
IdleCall ==
    [pc |-> "idle", raw |-> NoArgs, forecastData |-> NoForecast,
     forecasts |-> << >>, response |-> "none",
     generated |-> FALSE, before |-> << >>, solo |-> FALSE]

\* lastReturn: the call that returned last, its response and, when it ran
\* alone from its arrival to its return, the records of the store at its
\* arrival and at its return.
NoReturn ==
    [call |-> 0, response |-> "none", solo |-> FALSE, before |-> << >>, after |-> << >>]

InFlight(c) == calls[c].pc \notin {"idle", "done"}

HInit ==
    /\ file \in {FileMissing} \cup {FileJson([i \in 1..n |-> OldRecord(i)]) : n \in 0..MaxInitRecords}
    /\ calls = [c \in Calls |-> IdleCall]
    /\ faults = 0
    /\ lastReturn = NoReturn
    /\ fcIn = [args |-> NoArgs, env |-> HandlerEnv]
    /\ fcOut = NoForecast
    /\ fcJson = NoForecast
    /\ fcPc = "unused"

\* The response is returned: the call is over and its local variables are gone.
Return(c, kind, f) ==
    /\ calls' = [calls EXCEPT ![c].pc = "done", ![c].response = kind,
                              ![c].forecasts = << >>,
                              ![c].before = << >>, ![c].solo = FALSE]
    /\ lastReturn' = [call |-> c, response |-> kind, solo |-> calls[c].solo,
                      before |-> calls[c].before,
                      after |-> IF calls[c].solo THEN StoreRecords(f) ELSE << >>]

\* A CallTool request for capacity-forecast arrives; the handler awaits
\* ensureDataDirExists().  The calls are numbered in the order they arrive.
CallTool(c) ==
    /\ calls[c].pc = "idle"
    /\ \A d \in Calls : d < c => calls[d].pc # "idle"
    /\ \E raw \in HandlerArgs :
          calls' = [d \in Calls |->
                       IF d = c
                       THEN IF \A e \in Calls \ {c} : ~InFlight(e)
                            THEN [calls[c] EXCEPT !.pc = "entered", !.raw = raw,
                                                  !.before = StoreRecords(file),
                                                  !.solo = TRUE]
                            ELSE [calls[c] EXCEPT !.pc = "entered", !.raw = raw]
                       ELSE [calls[d] EXCEPT !.solo = FALSE, !.before = << >>]]
    /\ UNCHANGED <<file, faults, lastReturn>>
    /\ UNCHANGED fcVars

\* CapacityForecastSchema.parse throws a ZodError: the outer catch answers
\* "Invalid arguments".
RejectArguments(c) ==
    /\ calls[c].pc = "entered"
    /\ ~schemaAccepts(calls[c].raw)
    /\ Return(c, "invalid", file)
    /\ UNCHANGED <<file, faults>>
    /\ UNCHANGED fcVars

\* generateCapacityForecast throws: the inner catch answers with the error.
GenerateThrows(c) ==
    /\ calls[c].pc = "entered"
    /\ schemaAccepts(calls[c].raw)
    /\ generateCapacityForecast(schemaParse(calls[c].raw), HandlerEnv).threw
    /\ Return(c, "error", file)
    /\ UNCHANGED <<file, faults>>
    /\ UNCHANGED fcVars

\* A handler whose forecast draws its noise from the number of records in
\* the store.
GenerateFromStore(c) ==
    /\ calls[c].pc = "entered"
    /\ schemaAccepts(calls[c].raw)
    /\ LET forecastData ==
               generateCapacityForecast(
                   schemaParse(calls[c].raw),
                   [HandlerEnv EXCEPT !.seed = Len(StoreRecords(file)) % 2])
       IN  /\ ~forecastData.threw
           /\ calls' = [calls EXCEPT ![c].pc = "reading",
                                     ![c].forecastData = forecastData,
                                     ![c].generated = TRUE]
    /\ UNCHANGED <<file, faults, lastReturn>>
    /\ UNCHANGED fcVars

\* The forecast is generated and the handler awaits
\* loadDataOrDefault(capacityForecastsFile, []).
Generate(c) ==
    /\ calls[c].pc = "entered"
    /\ schemaAccepts(calls[c].raw)
    /\ LET forecastData == generateCapacityForecast(schemaParse(calls[c].raw), HandlerEnv)
       IN  /\ ~forecastData.threw
           /\ calls' = [calls EXCEPT ![c].pc = "reading",
                                     ![c].forecastData = forecastData,
                                     ![c].generated = TRUE]
    /\ UNCHANGED <<file, faults, lastReturn>>
    /\ UNCHANGED fcVars

\* The handler resumes with the loaded array, builds forecastRecord, pushes
\* it and awaits saveData.
pushRecord(c, forecasts) ==
    [calls EXCEPT ![c].pc = "saving",
                  ![c].forecasts =
                      Append(forecasts,
                             forecastRecord(c, schemaParse(calls[c].raw), calls[c].forecastData))]

\* readFile and JSON.parse succeed (or the file is missing or not JSON, which
\* loadDataOrDefault answers by the default).
Load(c) ==
    /\ calls[c].pc = "reading"
    /\ calls' = pushRecord(c, loadDataOrDefault(file, FALSE))
    /\ UNCHANGED <<file, faults, lastReturn>>
    /\ UNCHANGED fcVars

\* readFile fails (EMFILE, EACCES, EIO): loadDataOrDefault answers by the default.
LoadFails(c) ==
    /\ calls[c].pc = "reading"
    /\ faults < MaxFaults
    /\ faults' = faults + 1
    /\ calls' = pushRecord(c, loadDataOrDefault(file, TRUE))
    /\ UNCHANGED <<file, lastReturn>>
    /\ UNCHANGED fcVars

\* fs.writeFile opens the file for writing, which truncates it.
SaveOpen(c) ==
    /\ calls[c].pc = "saving"
    /\ file' = FilePartial
    /\ calls' = [calls EXCEPT ![c].pc = "writing"]
    /\ UNCHANGED <<faults, lastReturn>>
    /\ UNCHANGED fcVars

\* fs.writeFile cannot open the file: saveData rejects, the inner catch answers.
SaveOpenFails(c) ==
    /\ calls[c].pc = "saving"
    /\ faults < MaxFaults
    /\ faults' = faults + 1
    /\ Return(c, "error", file)
    /\ UNCHANGED file
    /\ UNCHANGED fcVars

\* fs.writeFile writes JSON.stringify(forecasts) and closes the file.
SaveWrite(c) ==
    /\ calls[c].pc = "writing"
    /\ file' = FileJson(calls[c].forecasts)
    /\ calls' = [calls EXCEPT ![c].pc = "saved"]
    /\ UNCHANGED <<faults, lastReturn>>
    /\ UNCHANGED fcVars

\* The write fails after the file was truncated (the disk is full, an I/O
\* error): saveData rejects, the inner catch answers.
SaveWriteFails(c) ==
    /\ calls[c].pc = "writing"
    /\ faults < MaxFaults
    /\ faults' = faults + 1
    /\ file' = FilePartial
    /\ Return(c, "error", FilePartial)
    /\ UNCHANGED fcVars

\* The handler resumes after saveData and returns the forecast.
Respond(c) ==
    /\ calls[c].pc = "saved"
    /\ Return(c, "success", file)
    /\ UNCHANGED <<file, faults>>
    /\ UNCHANGED fcVars

Next ==
    \E c \in Calls :
        \/ CallTool(c)
        \/ RejectArguments(c)
        \/ GenerateThrows(c)
        \/ Generate(c)
        \/ Load(c)
        \/ LoadFails(c)
        \/ SaveOpen(c)
        \/ SaveOpenFails(c)
        \/ SaveWrite(c)
        \/ SaveWriteFails(c)
        \/ Respond(c)

Init == HInit

Spec == Init /\ [][Next]_vars

\* ---------------------------------------------------------------- claims

HasRecord(c) ==
    \E i \in DOMAIN StoreRecords(file) : StoreRecords(file)[i].id = randomUUID(c)

IsPrefix(a, b) == Len(a) <= Len(b) /\ SubSeq(b, 1, Len(a)) = a

Done(c) == calls[c].pc = "done"

\* C1: when the calls run concurrently, no file operation fails and each call
\* returns success, the store holds one record for each of the calls.
C1_NoLostUpdate ==
    (faults = 0 /\ \A c \in Calls : Done(c) /\ calls[c].response = "success")
        => \A c \in Calls : HasRecord(c)

\* C2: run one at a time, a call that returns success leaves every record
\* that was in the store before it in the store, with the same content and in
\* the same order, also when the file could not be read or parsed during the
\* call.
C2_RecordsPreserved ==
    (lastReturn.solo /\ lastReturn.response = "success") =>
        IsPrefix(lastReturn.before, lastReturn.after)

\* C3: run one at a time, a call that returns success grows the store by
\* exactly one record, whose id is new and whose org_id, usage_type and
\* parameters are the validated inputs.
C3_GrowsByOne ==
    (lastReturn.solo /\ lastReturn.response = "success") =>
        /\ Len(lastReturn.after) = Len(lastReturn.before) + 1
        /\ LET r == lastReturn.after[Len(lastReturn.after)]
               args == schemaParse(calls[lastReturn.call].raw)
           IN  /\ \A i \in DOMAIN lastReturn.before : lastReturn.before[i].id # r.id
               /\ r.org_id = args.org_id
               /\ r.usage_type = args.usage_type
               /\ r.parameters =
                     [historical_days |-> args.historical_days,
                      forecast_days |-> args.forecast_days,
                      growth_rate |-> args.growth_rate,
                      include_seasonality |-> args.include_seasonality,
                      confidence_interval |-> args.confidence_interval,
                      threshold_warning |-> args.threshold_warning,
                      threshold_critical |-> args.threshold_critical]

\* C4: run one at a time, a call that returns a failure response leaves the
\* records of the store as they were before the call.
C4_FailureLeavesStore ==
    (lastReturn.solo /\ lastReturn.response \in {"invalid", "error"}) =>
        lastReturn.after = lastReturn.before

\* C5: a call whose confidence_interval is below 0 or above 0.99 (990
\* thousandths) is answered "Invalid arguments" without a forecast having been
\* generated or stored; a call whose confidence_interval is in [0, 0.99] is
\* never answered "Invalid arguments".
C5_ConfidenceIntervalRange ==
    \A c \in Calls :
        (calls[c].pc # "idle" /\ Has(calls[c].raw, "confidence_interval")) =>
            IF calls[c].raw.confidence_interval < 0 \/ calls[c].raw.confidence_interval > 990
            THEN /\ calls[c].pc \in {"entered", "done"}
                 /\ Done(c) => calls[c].response = "invalid"
                 /\ ~calls[c].generated
                 /\ calls[c].forecastData = NoForecast
                 /\ ~HasRecord(c)
            ELSE Done(c) => calls[c].response # "invalid"

\* C5: one call with an out-of-range confidence_interval has been rejected and
\* one with a confidence_interval at an end of the range has succeeded.
C5_Witness ==
    \E c, d \in Calls :
        /\ Done(c) /\ Has(calls[c].raw, "confidence_interval")
        /\ calls[c].raw.confidence_interval \in {-1, 991}
        /\ calls[c].response = "invalid"
        /\ Done(d) /\ Has(calls[d].raw, "confidence_interval")
        /\ calls[d].raw.confidence_interval \in {0, 990}
        /\ calls[d].response = "success"
        /\ HasRecord(d)

\* C6: a call with historical_days < 1 is answered "Invalid arguments"; no
\* forecast is generated or stored for it.
C6_HistoricalDaysRejected ==
    \A c \in Calls :
        (calls[c].pc # "idle" /\ Has(calls[c].raw, "historical_days")
            /\ calls[c].raw.historical_days < 1) =>
            /\ ~calls[c].generated
            /\ ~HasRecord(c)
            /\ Done(c) => calls[c].response = "invalid"

\* C7: the six arrays of a returned timeline have length historical_days +
\* forecast_days, and historical_end_index is historical_days - 1.
C7_TimelineLengths ==
    fcPc = "returned" =>
        LET t == fcJson.timeline
            n == fcIn.args.historical_days + fcIn.args.forecast_days
        IN  /\ Len(t.labels) = n
            /\ Len(t.values) = n
            /\ Len(t.confidence_lower) = n
            /\ Len(t.confidence_upper) = n
            /\ Len(t.threshold_warning) = n
            /\ Len(t.threshold_critical) = n
            /\ t.historical_end_index = fcIn.args.historical_days - 1

\* C8: in a returned timeline the confidence bounds are null at every index
\* below historical_days and non-null numbers at every index from
\* historical_days on.
C8_ConfidenceBounds ==
    fcPc = "returned" =>
        LET t == fcJson.timeline
        IN  /\ \A i \in DOMAIN t.confidence_lower :
                   IF i - 1 < fcIn.args.historical_days
                   THEN t.confidence_lower[i] = Null
                   ELSE t.confidence_lower[i].k = "fin"
            /\ \A i \in DOMAIN t.confidence_upper :
                   IF i - 1 < fcIn.args.historical_days
                   THEN t.confidence_upper[i] = Null
                   ELSE t.confidence_upper[i].k = "fin"

\* The warning breach date of the same call (same clock, same random draws,
\* same other parameters) with threshold_warning t.
BreachDateWith(t) ==
    generateCapacityForecast([fcIn.args EXCEPT !.threshold_warning = t],
                             fcIn.env).capacity.warning_breach_date

\* C9: with everything else fixed, a higher threshold_warning gives no earlier
\* warning_breach_date: null stays null, a date stays or becomes later or null.
C9_BreachMonotone ==
    fcPc = "generated" =>
        \A t2 \in WarningSet :
            t2 > fcIn.args.threshold_warning =>
                LET b1 == fcOut.capacity.warning_breach_date
                    b2 == BreachDateWith(t2)
                IN  IF b1 = Null THEN b2 = Null ELSE b2 = Null \/ b2.n >= b1.n

\* C9: a forecast whose breach date a higher threshold_warning moves to a
\* later date, and an even higher one removes.
C9_Witness ==
    /\ fcPc = "generated"
    /\ fcOut.capacity.warning_breach_date # Null
    /\ \E t2, t3 \in WarningSet :
          /\ fcIn.args.threshold_warning < t2 /\ t2 < t3
          /\ BreachDateWith(t2) # Null
          /\ BreachDateWith(t2).n > fcOut.capacity.warning_breach_date.n
          /\ BreachDateWith(t3) = Null

\* C10: with threshold_warning = 0 and forecast_days >= 1 the warning breach
\* date is labels[historical_days], the first forecast date.
C10_ZeroThresholdBreach ==
    (fcPc = "generated" /\ fcIn.args.threshold_warning = 0 /\ fcIn.args.forecast_days >= 1) =>
        fcOut.capacity.warning_breach_date
            = At(fcOut.timeline.labels, fcIn.args.historical_days)

\* C11: a forecast with forecast_days = 0 is returned, its timeline has
\* historical_days entries, both breach dates are null and the recommended
\* increase_amount is 0.
C11_EmptyForecast ==
    (fcPc # "called" /\ fcIn.args.forecast_days = 0) =>
        /\ fcPc # "failed"
        /\ Len(fcOut.timeline.values) = fcIn.args.historical_days
        /\ fcOut.capacity.warning_breach_date = Null
        /\ fcOut.capacity.critical_breach_date = Null
        /\ fcOut.capacity.recommended_increase.increase_amount = Num(0)

\* C11: the same for the calls with historical_days >= 0, where the timeline
\* is the historical segment alone.
C11_EmptyForecastOfHistory ==
    (fcPc # "called" /\ fcIn.args.forecast_days = 0 /\ fcIn.args.historical_days >= 0) =>
        /\ fcPc # "failed"
        /\ Len(fcOut.timeline.values) = fcIn.args.historical_days
        /\ fcOut.capacity.warning_breach_date = Null
        /\ fcOut.capacity.critical_breach_date = Null
        /\ fcOut.capacity.recommended_increase.increase_amount = Num(0)

\* confidence_upper[i] - confidence_lower[i] at the 1-based index i of a
\* timeline whose bounds there are finite.
BoundsWidth(t, i) == t.confidence_upper[i].n - t.confidence_lower[i].n

\* C12: with the noise factors fixed, the width confidence_upper[j] -
\* confidence_lower[j] of the forecast bounds does not decrease from one
\* forecast offset to the next.  Stated for the calls the claim is surely
\* about: historical_days >= 1, a growth rate that is not negative, the
\* clock not advancing during the call.
C12_WidthNonDecreasing ==
    (fcPc = "generated" /\ fcIn.args.historical_days >= 1
        /\ fcIn.args.growth_rate >= 0 /\ fcIn.env.skew = 0) =>
        \A i \in 1..Len(fcOut.timeline.values) :
            (i > fcIn.args.historical_days /\ i < Len(fcOut.timeline.values)) =>
                BoundsWidth(fcOut.timeline, i) <= BoundsWidth(fcOut.timeline, i + 1)

\* The six arrays of the timeline of a forecast.
TimelineArrays(f) ==
    <<f.timeline.labels, f.timeline.values, f.timeline.confidence_lower,
      f.timeline.confidence_upper, f.timeline.threshold_warning,
      f.timeline.threshold_critical>>

BreachTitles ==
    {"Critical Capacity Breach Imminent", "Capacity Warning Threshold Approaching",
     "Capacity Adequate"}

\* C14: the recommendations of a forecast start with the breach-priority
\* entry: critical when there is a critical breach date, otherwise warning
\* when there is a warning breach date, otherwise info; no other entry of the
\* list is a breach-priority entry.
C14_BreachPriorityEntry ==
    fcPc = "generated" =>
        LET recs == fcOut.recommendations
            crit == fcOut.capacity.critical_breach_date
            warn == fcOut.capacity.warning_breach_date
        IN  /\ Len(recs) >= 1
            /\ recs[1] = IF crit # Null
                         THEN [type |-> "critical",
                               title |-> "Critical Capacity Breach Imminent"]
                         ELSE IF warn # Null
                         THEN [type |-> "warning",
                               title |-> "Capacity Warning Threshold Approaching"]
                         ELSE [type |-> "info", title |-> "Capacity Adequate"]
            /\ \A i \in 2..Len(recs) : recs[i].title \notin BreachTitles

\* C14: a forecast that breaches both thresholds and whose list starts with
\* the critical entry.
C14_Witness ==
    /\ fcPc = "generated"
    /\ fcOut.capacity.critical_breach_date # Null
    /\ fcOut.capacity.warning_breach_date # Null
    /\ fcOut.recommendations[1].type = "critical"
    /\ fcIn.args.historical_days >= 1
    /\ fcIn.args.growth_rate >= 0

\* C15: the recommendations of a forecast hold exactly one entry of type
\* optimization; it is the last entry and its title is the one of the usage
\* type.
C15_OneOptimizationEntry ==
    fcPc = "generated" =>
        LET recs == fcOut.recommendations
        IN  /\ Cardinality({i \in 1..Len(recs) : recs[i].type = "optimization"}) = 1
            /\ Len(recs) >= 1
            /\ recs[Len(recs)].type = "optimization"
            /\ recs[Len(recs)].title =
                  CASE fcIn.args.usage_type = "dns_query_usage_sum" -> "DNS Query Optimization"
                    [] fcIn.args.usage_type = "cdn_request_sum" -> "Request Optimization"
                    [] fcIn.args.usage_type = "cdn_traffic_sum" -> "Traffic Optimization"

\* C15: a forecast of traffic with growth entries before its optimization entry.
C15_Witness ==
    /\ fcPc = "generated"
    /\ fcIn.args.usage_type = "cdn_traffic_sum"
    /\ Len(fcOut.recommendations) = 4
    /\ fcOut.recommendations[4].title = "Traffic Optimization"

\* The growth entries a list of recommendations has between its first and
\* its last entry.
GrowthEntries(recs) == SubSeq(recs, 2, Len(recs) - 1)

\* A reported growth percentage (in hundredths, or "Infinity") exceeds limit.
PctAbove(pct, limit) == pct.k = "inf" \/ (pct.k = "fin" /\ pct.n > 100 * limit)

C16_BothEntries ==
    fcPc = "generated" /\ Len(GrowthEntries(fcOut.recommendations)) = 2

\* C17: every entry of timeline.values of a forecast, historical and
\* forecast, is a number that is not negative.  Stated for the calls with
\* historical_days >= 1.
C17_ValuesNonNegative ==
    (fcPc = "generated" /\ fcIn.args.historical_days >= 1) =>
        \A i \in 1..Len(fcOut.timeline.values) :
            /\ fcOut.timeline.values[i].k = "fin"
            /\ fcOut.timeline.values[i].n >= 0

\* C18: a returned forecast reports neither "NaN" nor "Infinity" as
\* next_30_days_growth_pct or next_90_days_growth_pct: the two percentages
\* are finite numbers.  Stated for the calls with historical_days >= 1 and
\* forecast_days >= 0.
C18_GrowthPctFinite ==
    (fcPc = "returned" /\ fcIn.args.historical_days >= 1
        /\ fcIn.args.forecast_days >= 0) =>
        /\ fcJson.growth_metrics.next_30_days_growth_pct.k = "fin"
        /\ fcJson.growth_metrics.next_90_days_growth_pct.k = "fin"

\* The label at the smallest index >= historical_days whose value reaches
\* the threshold thr (in hundredths of the capacity), null when there is none.
FirstReached(t, args, thr) ==
    LET reached == {i \in 1..Len(t.values) :
                        /\ i - 1 >= args.historical_days
                        /\ Geq(t.values[i], thresholdValue(args.usage_type, thr))}
    IN  IF reached = {} THEN Null
        ELSE t.labels[CHOOSE i \in reached : \A j \in reached : i <= j]

\* C19: the warning and the critical breach date of a forecast are the date
\* at the smallest index of the forecast segment whose value reaches the
\* threshold, and null when no value of the forecast segment reaches it; a
\* historical value at or above the threshold is not reported.
C19_BreachInForecastSegment ==
    fcPc = "generated" =>
        /\ fcOut.capacity.warning_breach_date
              = FirstReached(fcOut.timeline, fcIn.args, fcIn.args.threshold_warning)
        /\ fcOut.capacity.critical_breach_date
              = FirstReached(fcOut.timeline, fcIn.args, fcIn.args.threshold_critical)

\* C19: a historical value is above the warning threshold, and the warning
\* breach date is a forecast date after the first one.
C19_Witness ==
    /\ fcPc = "generated"
    /\ fcIn.args.threshold_warning > 0
    /\ \E i \in 1..fcIn.args.historical_days :
          Geq(fcOut.timeline.values[i],
              thresholdValue(fcIn.args.usage_type, fcIn.args.threshold_warning))
    /\ fcOut.capacity.warning_breach_date # Null
    /\ fcOut.capacity.warning_breach_date.n > fcIn.env.now
    /\ fcIn.args.growth_rate >= 0

\* The weekday multipliers analyzeHistoricalPatterns returns in the call,
\* from the historical values h of its timeline.
WeekdayPatternsFrom(h) ==
    analyzeHistoricalPatterns(h, fcIn.args.historical_days,
                              fcIn.env.now + fcIn.env.skew).weekdayPatterns

\* The seven fractions p sum to 7: they are added over the least common
\* multiple D of their denominators.
SumsToSeven(p, D) == sum7([w \in 1..7 |-> p[w].n * (D \div p[w].d)]) = 7 * D

\* The multipliers p are finite numbers.
AllFinite(p) == \A w \in 1..7 : p[w].k = "fin"

\* Finite multipliers p sum to 7.
FiniteSumToSeven(p) ==
    AllFinite(p) => SumsToSeven(p, lcmOf({p[w].d : w \in 1..7}))

\* Finite multipliers p that are not all equal.
FiniteAndDistinct(p) == AllFinite(p) /\ \E w \in 1..7 : p[w] # p[1]

\* C20: for historical_days >= 1 and a mean of the bucket averages that is
\* not zero (the multipliers are finite then), the seven weekday multipliers
\* sum to 7.
C20_WeekdayMultipliersSum ==
    (fcPc = "generated" /\ fcIn.args.historical_days >= 1) =>
        \A p \in {WeekdayPatternsFrom(SubSeq(fcOut.timeline.values, 1,
                                               fcIn.args.historical_days))} :
            FiniteSumToSeven(p)

\* C20: a call with the longest history whose multipliers are finite and not
\* all equal.
C20_Witness ==
    /\ fcPc = "generated"
    /\ fcIn.args.historical_days = MaxHistDays
    /\ \E p \in {WeekdayPatternsFrom(SubSeq(fcOut.timeline.values, 1,
                                           fcIn.args.historical_days))} :
          FiniteAndDistinct(p)

\* The weekday buckets (1 = Sunday) that receive no historical value in the call.
EmptyBuckets ==
    {w \in 1..7 : bucketIndices(fcIn.args.historical_days,
                                fcIn.env.now + fcIn.env.skew, w - 1) = {}}

\* C21: every weekday bucket that received no historical value has the
\* multiplier 1 in the patterns analyzeHistoricalPatterns returns.
C21_EmptyBucketMultiplier ==
    fcPc = "generated" =>
        \A p \in {WeekdayPatternsFrom(SubSeq(fcOut.timeline.values, 1,
                                               fcIn.args.historical_days))} :
            \A w \in EmptyBuckets : p[w] = Num(1)

\* C22: the weekday bucket into which analyzeHistoricalPatterns puts the
\* historical value i is the day of the week of labels[i], also when the
\* clock advances between the synthesis and the analysis.
C22_BucketIsLabelWeekday ==
    fcPc = "generated" =>
        \A i \in 0..(fcIn.args.historical_days - 1) :
            i \in bucketIndices(fcIn.args.historical_days,
                                fcIn.env.now + fcIn.env.skew,
                                GetDay(fcOut.timeline.labels[i + 1].n))

\* C22: the same for the calls during which the clock does not advance.
C22_BucketIsLabelWeekdaySteadyClock ==
    (fcPc = "generated" /\ fcIn.env.skew = 0) =>
        \A i \in 0..(fcIn.args.historical_days - 1) :
            i \in bucketIndices(fcIn.args.historical_days,
                                fcIn.env.now + fcIn.env.skew,
                                GetDay(fcOut.timeline.labels[i + 1].n))

\* The product of the integers fs is a multiple of the product of the
\* non-zero integers ds.
Divides(fs, ds) == DivAll(MulAll(<<1>>, fs), ds, TRUE).exact

\* The forecast value at offset j (from 1) of timeline t is the floor of the
\* last historical value times the multiplier p of the weekday of its date.
IsFlooredProduct(t, hd, j, p) ==
    LET m == p[GetDay(t.labels[hd + j].n) + 1]
    IN  t.values[hd + j] = Num(FloorProd(<<t.values[hd].n, m.n>>, <<m.d>>))

\* That product is an integer.
IsWholeProduct(t, hd, j, p) ==
    LET m == p[GetDay(t.labels[hd + j].n) + 1]
    IN  Divides(<<t.values[hd].n, m.n>>, <<m.d>>)

\* A call without trend and without seasonal factor.
PlainCall ==
    /\ fcPc = "generated"
    /\ fcIn.args.growth_rate = 0
    /\ ~fcIn.args.include_seasonality
    /\ fcIn.args.historical_days >= 1

\* C23, as stated: with growth_rate = 0 and include_seasonality = false every
\* forecast value equals the last historical value times the multiplier of
\* the weekday of its date exactly.
C23_ExactProduct ==
    PlainCall =>
        \A p \in {WeekdayPatternsFrom(SubSeq(fcOut.timeline.values, 1,
                                               fcIn.args.historical_days))} :
            \A j \in 1..fcIn.args.forecast_days :
                /\ IsFlooredProduct(fcOut.timeline, fcIn.args.historical_days, j, p)
                /\ IsWholeProduct(fcOut.timeline, fcIn.args.historical_days, j, p)

\* C23, amended: with growth_rate = 0 and include_seasonality = false every
\* forecast value equals the floor of the last historical value times the
\* multiplier of the weekday of its date.
C23_FlooredProduct ==
    PlainCall =>
        \A p \in {WeekdayPatternsFrom(SubSeq(fcOut.timeline.values, 1,
                                               fcIn.args.historical_days))} :
            \A j \in 1..fcIn.args.forecast_days :
                IsFlooredProduct(fcOut.timeline, fcIn.args.historical_days, j, p)

\* C23: a call without trend and seasonal factor with a forecast value above
\* 1000 whose product is not an integer.
C23_Witness ==
    /\ PlainCall
    /\ \E p \in {WeekdayPatternsFrom(SubSeq(fcOut.timeline.values, 1,
                                             fcIn.args.historical_days))} :
          \E j \in 1..fcIn.args.forecast_days :
              /\ fcOut.timeline.values[fcIn.args.historical_days + j].n > 1000
              /\ ~IsWholeProduct(fcOut.timeline, fcIn.args.historical_days, j, p)

\* The forecast values of timeline t after hd historical values.
ForecastPart(t, hd) == SubSeq(t.values, Min2(Max2(hd, 0), Len(t.values)) + 1, Len(t.values))

\* peak / threshold is a number or -Infinity (threshold in hundredths, not
\* negative): the increase needed is a number then.
NeedIsNumber(peak, threshold) ==
    \/ peak.k = "ninf"
    \/ peak.k = "fin" /\ (threshold > 0 \/ peak.n < 0)

\* amount >= max(0, peak / threshold - capacity) when the increase needed is
\* a number.
CoversNeed(amount, peak, threshold, capacity) ==
    /\ amount >= 0
    /\ (peak.k = "fin" /\ threshold > 0) =>
           amount + capacity >= CeilProd(<<peak.n, 100>>, <<threshold>>)

\* r is the increase the recommender's rule gives for the peak: a multiple of
\* roundingFactor, at least the increase needed and less than one
\* roundingFactor above it, with new_capacity the capacity plus the amount.
IsRoundedIncrease(r, peak, threshold, capacity, roundingFactor) ==
    /\ r.increase_amount.k = "fin" /\ r.increase_amount.d = 1
    /\ NeedIsNumber(peak, threshold)
    /\ r.increase_amount.n % roundingFactor = 0
    /\ CoversNeed(r.increase_amount.n, peak, threshold, capacity)
    /\ ~CoversNeed(r.increase_amount.n - roundingFactor, peak, threshold, capacity)
    /\ r.new_capacity = Num(capacity + r.increase_amount.n)

\* The rule holds of the forecast f of a call with arguments args.
RoundedIncreaseOf(f, args) ==
    IsRoundedIncrease(f.capacity.recommended_increase,
                      maxOf(ForecastPart(f.timeline, args.historical_days)),
                      args.threshold_warning,
                      getCapacityForUsageType(args.usage_type),
                      pow10(magnitude(getCapacityForUsageType(args.usage_type)) - 1))

\* C24: increase_amount is ceil(increase_needed / rounding_factor) *
\* rounding_factor with increase_needed = max(0, forecast_peak /
\* threshold_warning - capacity): a multiple of rounding_factor, at least
\* increase_needed and less than increase_needed + rounding_factor, and
\* new_capacity = capacity + increase_amount.
C24_RoundedIncrease ==
    (fcPc = "generated" /\ ~fcOut.threw /\ fcIn.args.historical_days >= 1) =>
        RoundedIncreaseOf(fcOut, fcIn.args)

\* C24 for a threshold_warning above zero: the rule holds.
C24_RoundedIncreasePositiveThreshold ==
    (fcPc = "generated" /\ ~fcOut.threw /\ fcIn.args.historical_days >= 1
        /\ fcIn.args.threshold_warning > 0) =>
        RoundedIncreaseOf(fcOut, fcIn.args)

\* C24: a call with a threshold_warning above zero that is advised a
\* positive increase.
C24_PositiveIncrease ==
    /\ fcPc = "generated" /\ ~fcOut.threw /\ fcIn.args.historical_days >= 1
    /\ fcIn.args.threshold_warning > 0
    /\ fcOut.capacity.recommended_increase.increase_amount.k = "fin"
    /\ fcOut.capacity.recommended_increase.increase_amount.n > 0

\* x is capacity times a threshold given in hundredths.
IsShareOf(x, capacity, threshold) ==
    /\ x.k = "fin"
    /\ GeqFraction(x.n, x.d, capacity * threshold, 100)
    /\ GeqFraction(capacity * threshold, 100, x.n, x.d)

\* The capacity the tool documents for each usage type.
StatedCapacity(usageType) ==
    CASE usageType = "dns_query_usage_sum" -> 500000
      [] usageType = "cdn_request_sum" -> 2000000
      [] usageType = "cdn_traffic_sum" -> 50000

\* pct is value / capacity * 100 to the nearest hundredth, for a capacity
\* that is a multiple of 10000.
IsPercentOf(pct, value, capacity) ==
    /\ capacity % 10000 = 0
    /\ pct.k = "fin" /\ pct.d = 100
    /\ value.k = "fin"
    /\ Abs(pct.n) = Abs(value.n) \div (capacity \div 10000)
                      + (IF 2 * (Abs(value.n) % (capacity \div 10000)) >= capacity \div 10000
                         THEN 1 ELSE 0)
    /\ Sign(pct.n) \in {0, Sign(value.n)}

\* The threshold arrays and the capacity fields of forecast f of a call with
\* arguments args.
ThresholdsAndCapacityOf(f, args, capacity) ==
    /\ f.capacity.current = capacity
    /\ Len(f.timeline.threshold_warning) = Len(f.timeline.values)
    /\ Len(f.timeline.threshold_critical) = Len(f.timeline.values)
    /\ \A idx \in 1..Len(f.timeline.values) :
          /\ IsShareOf(f.timeline.threshold_warning[idx], capacity, args.threshold_warning)
          /\ IsShareOf(f.timeline.threshold_critical[idx], capacity, args.threshold_critical)
    /\ IF args.historical_days >= 1
       THEN IsPercentOf(f.capacity.current_usage_percent,
                        f.timeline.values[args.historical_days], capacity)
       ELSE f.capacity.current_usage_percent = NaN

\* C25: at every index of the timeline, historical and forecast,
\* threshold_warning[idx] is capacity * threshold_warning and
\* threshold_critical[idx] is capacity * threshold_critical; capacity.current
\* is 500000, 2000000 or 50000 by usage type; current_usage_percent is
\* values[historical_days - 1] / capacity * 100 (written with two decimals;
\* "NaN" when there is no such value).
C25_ThresholdsAndCapacity ==
    (fcPc = "generated" /\ ~fcOut.threw) =>
        ThresholdsAndCapacityOf(fcOut, fcIn.args, StatedCapacity(fcIn.args.usage_type))

\* C25: a forecast with historical and forecast indices whose usage percent
\* is rounded up to the next hundredth.
C25_Witness ==
    /\ fcPc = "generated" /\ ~fcOut.threw
    /\ fcIn.args.historical_days >= 2
    /\ fcIn.args.forecast_days >= 2
    /\ fcIn.args.threshold_warning > 0
    /\ fcOut.capacity.current_usage_percent.k = "fin"
    /\ fcOut.capacity.current_usage_percent.n * (fcOut.capacity.current \div 10000)
          > fcOut.timeline.values[fcIn.args.historical_days].n

\* The values at the 0-based indices lo..hi are finite numbers.
WindowFinite(values, lo, hi) == \A idx \in lo..hi : values[idx + 1].k = "fin"

\* The sum of the finite values at the 0-based indices lo..hi.
RECURSIVE WindowSum(_, _, _)
WindowSum(values, lo, hi) ==
    IF lo > hi THEN 0 ELSE values[hi + 1].n + WindowSum(values, lo, hi - 1)

\* avg is the floor of total / count for a positive count.
IsFloorOfQuotient(avg, total, count) ==
    /\ avg.k = "fin" /\ avg.d = 1
    /\ avg.n * count <= total
    /\ total < (avg.n + 1) * count

\* avg is the floored mean of the values at the 0-based indices lo..hi, a
\* window that is not empty and holds finite values.
IsFlooredMean(avg, values, lo, hi) ==
    (lo <= hi /\ WindowFinite(values, lo, hi)) =>
        IsFloorOfQuotient(avg, WindowSum(values, lo, hi), hi - lo + 1)

\* peak is the maximum of the values at the 0-based indices lo..hi, a window
\* that is not empty and holds finite values.
IsPeak(peak, values, lo, hi) ==
    (lo <= hi /\ WindowFinite(values, lo, hi)) =>
        /\ peak.k = "fin"
        /\ \A idx \in lo..hi : values[idx + 1].n <= peak.n
        /\ \E idx \in lo..hi : values[idx + 1] = peak

\* The growth metrics g are those of the windows around nowIndex in values.
GrowthWindowsOf(g, values, nowIndex) ==
    /\ IsFlooredMean(g.past_30_days_avg, values, Max2(0, nowIndex - 30), nowIndex)
    /\ IsFlooredMean(g.next_30_days_avg, values, nowIndex + 1,
                     Min2(Len(values) - 1, nowIndex + 30))
    /\ IsFlooredMean(g.next_90_days_avg, values, nowIndex + 1,
                     Min2(Len(values) - 1, nowIndex + 90))
    /\ IsPeak(g.next_30_days_peak, values, nowIndex + 1,
              Min2(Len(values) - 1, nowIndex + 30))
    /\ IsPeak(g.next_90_days_peak, values, nowIndex + 1,
              Min2(Len(values) - 1, nowIndex + 90))

\* C26: with now_index = historical_days - 1, past_30_days_avg is the floored
\* mean of the values at [max(0, now_index - 30), now_index],
\* next_30_days_avg and next_90_days_avg are the floored means over
\* (now_index, min(len - 1, now_index + 30)] and (now_index, min(len - 1,
\* now_index + 90)], and the two peaks are the maxima over those forward
\* windows.
C26_GrowthWindows ==
    (fcPc = "generated" /\ ~fcOut.threw /\ fcIn.args.historical_days >= 1) =>
        GrowthWindowsOf(fcOut.growth_metrics, fcOut.timeline.values,
                        fcIn.args.historical_days - 1)

\* C26: a call whose history is longer than the past window and whose
\* forecast is longer than the 30-day window, with finite values, and with
\* different means and peaks over the two forward windows.
C26_Witness ==
    /\ fcPc = "generated" /\ ~fcOut.threw
    /\ fcIn.args.historical_days > 31
    /\ fcIn.args.forecast_days > 30
    /\ WindowFinite(fcOut.timeline.values, 0, Len(fcOut.timeline.values) - 1)
    /\ fcOut.growth_metrics.next_30_days_avg # fcOut.growth_metrics.next_90_days_avg
    /\ fcOut.growth_metrics.next_30_days_peak # fcOut.growth_metrics.next_90_days_peak
    /\ ~IsFloorOfQuotient(fcOut.growth_metrics.past_30_days_avg,
                          WindowSum(fcOut.timeline.values, 0,
                                    fcIn.args.historical_days - 1),
                          fcIn.args.historical_days)

\* newCapacity * threshold >= value as JavaScript evaluates it, for a
\* threshold in hundredths above zero.
CoversValue(newCapacity, threshold, value) ==
    IF newCapacity.k \in {"nan", "undef"} \/ value.k \in {"nan", "undef"} THEN FALSE
    ELSE IF newCapacity.k = "inf" \/ value.k = "ninf" THEN TRUE
    ELSE IF newCapacity.k = "ninf" \/ value.k = "inf" THEN FALSE
    ELSE newCapacity.n >= CeilProd(<<value.n, 100>>, <<threshold>>)

\* The recommended capacity of forecast f keeps every forecast value at or
\* below the warning threshold.
NewCapacityCovers(f, args) ==
    \A v \in {f.timeline.values[idx] :
                idx \in (Max2(args.historical_days, 0) + 1)..Len(f.timeline.values)} :
        CoversValue(f.capacity.recommended_increase.new_capacity,
                    args.threshold_warning, v)

\* C27: for threshold_warning > 0 and forecast_days >= 1,
\* recommended_increase.new_capacity * threshold_warning is at least every
\* forecast value.
C27_NewCapacityCoversForecast ==
    (fcPc = "generated" /\ ~fcOut.threw /\ fcIn.args.threshold_warning > 0
        /\ fcIn.args.forecast_days >= 1) =>
        NewCapacityCovers(fcOut, fcIn.args)

\* C27 for calls with historical_days >= 1: the recommended capacity covers
\* the forecast.
C27_NewCapacityCoversForecastOfHistory ==
    (fcPc = "generated" /\ ~fcOut.threw /\ fcIn.args.threshold_warning > 0
        /\ fcIn.args.forecast_days >= 1 /\ fcIn.args.historical_days >= 1) =>
        NewCapacityCovers(fcOut, fcIn.args)

\* The forecast value at the 1-based timeline index idx of t lies within its
\* confidence bounds.
WithinBounds(t, idx) ==
    /\ Geq(t.values[idx], t.confidence_lower[idx])
    /\ Geq(t.confidence_upper[idx], t.values[idx])

\* C28: for every forecast index j, confidence_lower[j] <= values[j] <=
\* confidence_upper[j], for all accepted parameters (stated for calls with
\* historical_days >= 1).
C28_ValueWithinBounds ==
    (fcPc = "generated" /\ ~fcOut.threw /\ fcIn.args.historical_days >= 1) =>
        \A idx \in (fcIn.args.historical_days + 1)..Len(fcOut.timeline.values) :
            WithinBounds(fcOut.timeline, idx)

\* C28 for the forecast values that are not negative: they lie within their
\* bounds.
C28_NonNegativeValueWithinBounds ==
    (fcPc = "generated" /\ ~fcOut.threw /\ fcIn.args.historical_days >= 1) =>
        \A idx \in (fcIn.args.historical_days + 1)..Len(fcOut.timeline.values) :
            Geq(fcOut.timeline.values[idx], Num(0)) => WithinBounds(fcOut.timeline, idx)

\* C29: when threshold_warning <= threshold_critical, a critical breach date
\* that is not null comes with a warning breach date that is not null and
\* not later; the thresholds are accepted in either order, and with
\* threshold_warning > threshold_critical a critical breach may be reported
\* without a warning breach (C29_CriticalWithoutWarning is reachable).
C29_WarningNotAfterCritical ==
    (fcPc = "generated" /\ ~fcOut.threw
        /\ fcIn.args.threshold_warning <= fcIn.args.threshold_critical
        /\ fcOut.capacity.critical_breach_date # Null) =>
        /\ fcOut.capacity.warning_breach_date # Null
        /\ fcOut.capacity.warning_breach_date.n <= fcOut.capacity.critical_breach_date.n

\* C29: a call with 0 < threshold_warning < threshold_critical whose critical
\* breach is later than its warning breach.
C29_Witness ==
    /\ fcPc = "generated" /\ ~fcOut.threw
    /\ 0 < fcIn.args.threshold_warning
    /\ fcIn.args.threshold_warning < fcIn.args.threshold_critical
    /\ fcOut.capacity.critical_breach_date # Null
    /\ fcOut.capacity.warning_breach_date # Null
    /\ fcOut.capacity.warning_breach_date.n < fcOut.capacity.critical_breach_date.n

\* A call accepted with threshold_warning > threshold_critical that reports a
\* critical breach and no warning breach.
C29_CriticalWithoutWarning ==
    /\ fcPc = "generated" /\ ~fcOut.threw
    /\ schemaAccepts(fcIn.args)
    /\ fcIn.args.threshold_warning > fcIn.args.threshold_critical
    /\ fcOut.capacity.critical_breach_date # Null
    /\ fcOut.capacity.warning_breach_date = Null

\* Call c is answered in this step with the response kind.
Answers(c, kind) ==
    /\ calls[c].pc # "done"
    /\ calls'[c].pc = "done"
    /\ calls'[c].response = kind

\* C30: a call returns success only after the save of the store with its
\* record has completed: when the success response is produced the record of
\* the call is in the store (stated for runs without a failing file
\* operation), and a call whose save fails is answered with a failure.
C30_SuccessAfterSave ==
    [][\A c \in Calls :
          /\ (Answers(c, "success") /\ faults = 0) =>
                calls[c].pc = "saved" /\ HasRecord(c)
          /\ (calls[c].pc \in {"saving", "writing"} /\ calls'[c].pc = "done") =>
                calls'[c].response = "error"]_vars

\* C30 without the record being in the store at the response: success is
\* answered only after the call's own write has completed, and a failed save
\* is answered with a failure.
C30_SuccessAfterOwnWrite ==
    [][\A c \in Calls :
          /\ Answers(c, "success") => calls[c].pc = "saved"
          /\ (calls[c].pc \in {"saving", "writing"} /\ calls'[c].pc = "done") =>
                calls'[c].response = "error"]_vars

\* C30 for a call that ran alone: its record is in the store when it returns
\* success.
C30_SoloSuccessHasRecord ==
    (lastReturn.solo /\ lastReturn.response = "success") =>
        \E i \in DOMAIN lastReturn.after :
            lastReturn.after[i].id = randomUUID(lastReturn.call)

=============================================================================
